---- MODULE Spec2Model ----
(***************************************************************************)
(* Model of the string-error crate (src/src/lib.rs).                       *)
(*                                                                         *)
(* The crate turns a text into a boxed error trait object.  Two private    *)
(* shapes implement the trait: StaticStrError keeps the caller's           *)
(* &'static str, StringError keeps an owned String.  Three constructors    *)
(* build them: static_err, new_err (copies its &str), into_err (takes the  *)
(* caller's String).                                                       *)
(*                                                                         *)
(* Text memory is modelled explicitly, so that "stores the reference",     *)
(* "copies" and "takes ownership" are different things: a text lives at an *)
(* address, an error value holds an address, and a caller who still owns   *)
(* the source of a &str may change or free it after the call.              *)
(***************************************************************************)
EXTENDS Naturals, Sequences, FiniteSets, TLC

\* Longest source text explored.
MaxLen == 2

\* Number of readers that share one error value.
NReaders == 2

\* Alphabet of the explored texts; both characters also occur in the label.
Chars == {"E", "o"}

Texts == UNION {[1..n -> Chars] : n \in 0..MaxLen}

Readers == 1..NReaders

\* The literal of the format string "Error: {}" that precedes the argument.
Label == <<"E", "r", "r", "o", "r", ":", " ">>

\* Where a text can live: read-only data of the binary (what a &'static str
\* points to) and heap buffers (what a String owns).
Rodata == "rodata"
Heap == {"h1", "h2"}
Addr == {Rodata} \cup Heap
NoAddr == "null"

\* A freed heap buffer.
Freed == [live |-> FALSE, text |-> <<>>]

Buffer(t) == [live |-> TRUE, text |-> t]

NoErr == [shape |-> "none"]
NoCall == [ctor |-> "none"]
NoRet == [op |-> "none"]
None == [some |-> FALSE]

VARIABLES
    mem,    \* Addr -> buffer: the texts in memory
    src,    \* the heap address of the String the caller owns, or NoAddr
    err,    \* the error value a constructor returned, or NoErr
    call,   \* history: the constructor call that built err
    pc,     \* per reader: 0 when idle, else the index of the next piece fmt writes
    out,    \* per reader: the buffer its Formatter writes into
    ret     \* history: the last result a reader's call returned

vars == <<mem, src, err, call, pc, out, ret>>

----------------------------------------------------------------------------
\* The two shapes.

StaticStrError(e) == [shape |-> "StaticStrError", error |-> e]

StringError(e) == [shape |-> "StringError", error |-> e]

ErrorValues == {StaticStrError(a) : a \in Addr} \cup {StringError(a) : a \in Addr}

\* A description that names the shape instead of returning the stored text.
StaticStrError_description_fixed(self) == <<"E", "r", "r", "o", "r">>

\* impl Error for StaticStrError: description returns self.error
StaticStrError_description(self) == mem[self.error].text

\* A description that returns the labelled display text.
StringError_description_labelled(self) == Label \o mem[self.error].text

\* impl Error for StringError: description returns &self.error
StringError_description(self) == mem[self.error].text

\* A cause that reports the value itself.
Error_cause_self(self) == [some |-> TRUE, error |-> self]

\* Neither impl overrides cause: the trait's default applies, which is None.
Error_cause(self) == None

\* A static shape that labels its display text as the owned shape does.
StaticStrError_fmt_labelled(self) == <<Label, mem[self.error].text>>

\* impl Display for StaticStrError: the write_str calls fmt makes, in order.
StaticStrError_fmt(self) == <<mem[self.error].text>>

\* An owned shape that writes the text without the label.
StringError_fmt_bare(self) == <<mem[self.error].text>>

\* impl Display for StringError: write!(f, "Error: {}", self.error) writes the
\* literal piece and then the argument.
StringError_fmt(self) == <<Label, mem[self.error].text>>

\* Dispatch through the trait object.
description_of(self) ==
    IF self.shape = "StaticStrError"
    THEN StaticStrError_description(self)
    ELSE StringError_description(self)

fmt_of(self) ==
    IF self.shape = "StaticStrError"
    THEN StaticStrError_fmt(self)
    ELSE StringError_fmt(self)

RECURSIVE Concat(_)
Concat(pieces) ==
    IF pieces = <<>> THEN <<>> ELSE Head(pieces) \o Concat(Tail(pieces))

\* The display text of a value: everything fmt writes, in one go.
to_string(self) == Concat(fmt_of(self))

----------------------------------------------------------------------------
\* Memory.

FreeAddrs == {a \in Heap : ~mem[a].live}

\* String::from(e): a fresh buffer d that holds a copy of the text at e.
String_from(d, e) == [mem EXCEPT ![d] = Buffer(mem[e].text)]

\* History of a constructor call: its argument, the text the argument had, and
\* the number of text buffers the call created.
Returned(ctor, e) ==
    call' = [ctor |-> ctor, e |-> e, T |-> mem[e].text,
             copies |-> Cardinality({a \in Addr : ~mem[a].live /\ mem'[a].live})]

Init ==
    /\ \E s \in Texts, t \in Texts :
          mem = [a \in Addr |->
                    IF a = Rodata THEN Buffer(s)
                    ELSE IF a = "h1" THEN Buffer(t) ELSE Freed]
    /\ src = "h1"
    /\ err = NoErr
    /\ call = NoCall
    /\ pc = [r \in Readers |-> 0]
    /\ out = [r \in Readers |-> <<>>]
    /\ ret = NoRet

----------------------------------------------------------------------------
\* The constructors.

\* A static_err that refuses the empty text.
static_err_nonempty(e) ==
    /\ call = NoCall
    /\ e = Rodata
    /\ err' = IF mem[e].text = <<>> THEN NoErr ELSE StaticStrError(e)
    /\ mem' = mem
    /\ Returned("static_err", e)
    /\ UNCHANGED <<src, pc, out, ret>>

\* pub fn static_err(e: &'static str): Box::new(StaticStrError { error: e })
static_err(e) ==
    /\ call = NoCall
    /\ e = Rodata
    /\ err' = StaticStrError(e)
    /\ mem' = mem
    /\ Returned("static_err", e)
    /\ UNCHANGED <<src, pc, out, ret>>

\* A new_err that keeps the borrowed reference instead of copying the text.
new_err_borrow(e) ==
    /\ call = NoCall
    /\ mem[e].live
    /\ err' = StringError(e)
    /\ mem' = mem
    /\ Returned("new_err", e)
    /\ UNCHANGED <<src, pc, out, ret>>

\* pub fn new_err(e: &str): Box::new(StringError { error: String::from(e) })
new_err(e) ==
    /\ call = NoCall
    /\ mem[e].live
    /\ \E d \in FreeAddrs :
          /\ mem' = String_from(d, e)
          /\ err' = StringError(d)
    /\ Returned("new_err", e)
    /\ UNCHANGED <<src, pc, out, ret>>

\* An into_err that copies the String it was given and drops the original.
into_err_clone(e) ==
    /\ call = NoCall
    /\ e = src /\ e # NoAddr
    /\ \E d \in FreeAddrs :
          /\ mem' = [String_from(d, e) EXCEPT ![e] = Freed]
          /\ err' = StringError(d)
    /\ src' = NoAddr
    /\ Returned("into_err", e)
    /\ UNCHANGED <<pc, out, ret>>

\* pub fn into_err(e: String): Box::new(StringError { error: e })
\* The String moves into the error value: the caller no longer owns it.
into_err(e) ==
    /\ call = NoCall
    /\ e = src /\ e # NoAddr
    /\ err' = StringError(e)
    /\ src' = NoAddr
    /\ mem' = mem
    /\ Returned("into_err", e)
    /\ UNCHANGED <<pc, out, ret>>

----------------------------------------------------------------------------
\* The caller's own String, which new_err only borrows for the call.

caller_push(c) ==
    /\ src # NoAddr
    /\ Len(mem[src].text) < MaxLen
    /\ mem' = [mem EXCEPT ![src] = Buffer(Append(mem[src].text, c))]
    /\ UNCHANGED <<src, err, call, pc, out, ret>>

caller_clear ==
    /\ src # NoAddr
    /\ mem[src].text # <<>>
    /\ mem' = [mem EXCEPT ![src] = Buffer(<<>>)]
    /\ UNCHANGED <<src, err, call, pc, out, ret>>

caller_drop ==
    /\ src # NoAddr
    /\ mem' = [mem EXCEPT ![src] = Freed]
    /\ src' = NoAddr
    /\ UNCHANGED <<err, call, pc, out, ret>>

----------------------------------------------------------------------------
\* Readers of the error value.  Each holds a shared reference (&self).

Busy(r) == \E q \in Readers \ {r} : pc[q] # 0

Result(r, op, val) == [op |-> op, val |-> val, conc |-> Busy(r)]

description(r) ==
    /\ err # NoErr /\ pc[r] = 0
    /\ ret' = Result(r, "description", description_of(err))
    /\ UNCHANGED <<mem, src, err, call, pc, out>>

cause(r) ==
    /\ err # NoErr /\ pc[r] = 0
    /\ ret' = Result(r, "cause", Error_cause(err))
    /\ UNCHANGED <<mem, src, err, call, pc, out>>

\* display: a fresh buffer and Formatter, then fmt writes its pieces into it.
display(r) ==
    /\ err # NoErr /\ pc[r] = 0
    /\ pc' = [pc EXCEPT ![r] = 1]
    /\ out' = [out EXCEPT ![r] = <<>>]
    /\ UNCHANGED <<mem, src, err, call, ret>>

\* A write_str that also stores what it has rendered back into the value.
write_str_caching(r) ==
    /\ pc[r] # 0
    /\ LET pieces == fmt_of(err)
           buf == out[r] \o pieces[pc[r]]
       IN  /\ mem' = [mem EXCEPT ![err.error] = Buffer(buf)]
           /\ IF pc[r] < Len(pieces)
              THEN /\ out' = [out EXCEPT ![r] = buf]
                   /\ pc' = [pc EXCEPT ![r] = pc[r] + 1]
                   /\ ret' = ret
              ELSE /\ out' = [out EXCEPT ![r] = <<>>]
                   /\ pc' = [pc EXCEPT ![r] = 0]
                   /\ ret' = Result(r, "display", buf)
    /\ UNCHANGED <<src, err, call>>

\* A write_str whose buffer is shared by every Formatter in use.
write_str_shared(r) ==
    /\ pc[r] # 0
    /\ LET pieces == fmt_of(err)
           piece == pieces[pc[r]]
           buf == out[r] \o piece
       IN  IF pc[r] < Len(pieces)
           THEN /\ out' = [q \in Readers |-> IF pc[q] # 0 THEN out[q] \o piece ELSE out[q]]
                /\ pc' = [pc EXCEPT ![r] = pc[r] + 1]
                /\ ret' = ret
           ELSE /\ out' = [q \in Readers |->
                             IF q = r THEN <<>>
                             ELSE IF pc[q] # 0 THEN out[q] \o piece ELSE out[q]]
                /\ pc' = [pc EXCEPT ![r] = 0]
                /\ ret' = Result(r, "display", buf)
    /\ UNCHANGED <<mem, src, err, call>>

\* One write_str of fmt; after the last piece the buffer is the display text.
write_str(r) ==
    /\ pc[r] # 0
    /\ LET pieces == fmt_of(err)
           buf == out[r] \o pieces[pc[r]]
       IN  IF pc[r] < Len(pieces)
           THEN /\ out' = [out EXCEPT ![r] = buf]
                /\ pc' = [pc EXCEPT ![r] = pc[r] + 1]
                /\ ret' = ret
           ELSE /\ out' = [out EXCEPT ![r] = <<>>]
                /\ pc' = [pc EXCEPT ![r] = 0]
                /\ ret' = Result(r, "display", buf)
    /\ UNCHANGED <<mem, src, err, call>>

----------------------------------------------------------------------------

Next ==
    \/ \E e \in Addr : static_err(e)
    \/ \E e \in Addr : new_err(e)
    \/ \E e \in Addr : into_err(e)
    \/ \E c \in Chars : caller_push(c)
    \/ caller_clear
    \/ caller_drop
    \/ \E r \in Readers : description(r)
    \/ \E r \in Readers : cause(r)
    \/ \E r \in Readers : display(r)
    \/ \E r \in Readers : write_str(r)

Spec == Init /\ [][Next]_vars

----------------------------------------------------------------------------
\* The claims.

Owned == call.ctor \in {"new_err", "into_err"}

\* What a call returns when no other call is in progress.
Alone(op) ==
    CASE op = "description" -> description_of(err)
      [] op = "cause" -> Error_cause(err)
      [] op = "display" -> to_string(err)

\* C1: whichever constructor built the value and whatever the text T was,
\* description() returns exactly T.
C1_DescriptionVerbatim ==
    ret.op = "description" => ret.val = call.T

C1_Witness ==
    /\ ret.op = "description"
    /\ call.ctor = "static_err"
    /\ Len(ret.val) = MaxLen

\* C2: cause() of a constructed value is none, in every state after the
\* construction and in every result a cause() call returned.
C2_CauseNone ==
    /\ err # NoErr => Error_cause(err) = None
    /\ ret.op = "cause" => ret.val = None

C2_Witness ==
    /\ ret.op = "cause"
    /\ ret.val = None
    /\ \E r \in Readers : pc[r] = 2

\* C3: display() of a value built by new_err or into_err from T returns the
\* label "Error: " followed by T.
C3_OwnedDisplayLabelled ==
    (ret.op = "display" /\ Owned) => ret.val = Label \o call.T

C3_Witness ==
    /\ ret.op = "display"
    /\ call.ctor = "into_err"
    /\ call.T # <<>>

\* C4: display() of a value built by static_err from T returns exactly T.
C4_StaticDisplayBare ==
    (ret.op = "display" /\ call.ctor = "static_err") => ret.val = call.T

C4_Witness ==
    /\ ret.op = "display"
    /\ call.ctor = "static_err"
    /\ call.T # <<>>

\* C5 as stated: for a value built by new_err or into_err from T, both
\* description() and display() return exactly T.
C5_Original ==
    (Owned /\ ret.op \in {"description", "display"}) => ret.val = call.T

\* C5 as amended: for a value built by new_err or into_err from T,
\* description() returns exactly T, and display() returns the label
\* "Error: " followed by T, which is never T itself.
C5_Amended ==
    Owned =>
        /\ ret.op = "description" => ret.val = call.T
        /\ ret.op = "display" =>
              /\ ret.val = Label \o call.T
              /\ ret.val # call.T

C5_Witness ==
    /\ ret.op = "display"
    /\ call.ctor = "new_err"
    /\ call.e = Rodata

\* C6: no step changes a constructed value or the text it stores, so its
\* description and its display text are the same after every step, and two
\* description() results in a row are equal.
C6_TextImmutable ==
    [][/\ err # NoErr =>
            /\ err' = err
            /\ mem'[err.error] = mem[err.error]
            /\ description_of(err)' = description_of(err)
            /\ to_string(err)' = to_string(err)
       /\ (ret.op = "description" /\ ret'.op = "description") => ret'.val = ret.val
      ]_vars

C6_Witness ==
    /\ ret.op = "display"
    /\ call.ctor = "into_err"
    /\ \A r \in Readers : pc[r] = 2
    /\ mem[err.error].text = call.T

\* C7: the value new_err built from T keeps T whatever the caller does to the
\* source text afterwards: its buffer, its description and its display text
\* are those of T.
C7_IndependentCopy ==
    call.ctor = "new_err" =>
        /\ mem[err.error] = Buffer(call.T)
        /\ description_of(err) = call.T
        /\ to_string(err) = Label \o call.T

C7_Witness ==
    /\ call.ctor = "new_err"
    /\ call.e \in Heap
    /\ \/ ~mem[call.e].live
       \/ mem[call.e].text # call.T
    /\ ret.op = "description"

\* C8: every constructor can be called on every text, and what it returns is
\* an error value of its shape that holds a live text.
C8_NeverFails ==
    /\ call = NoCall =>
          /\ ENABLED static_err(Rodata)
          /\ \A e \in Addr : mem[e].live => ENABLED new_err(e)
          /\ src # NoAddr => ENABLED into_err(src)
    /\ call # NoCall =>
          /\ err \in ErrorValues
          /\ mem[err.error].live
          /\ err.shape = (IF call.ctor = "static_err"
                          THEN "StaticStrError" ELSE "StringError")

C8_Witness ==
    /\ call.ctor = "static_err"
    /\ call.T = <<>>
    /\ err \in ErrorValues

\* C9: whatever the other readers are doing, a reader's unfinished display
\* buffer holds exactly the pieces it wrote itself, every result returned is
\* the result the call gives alone, and the stored text is the constructor's.
C9_ConcurrentReads ==
    /\ \A r \in Readers :
          out[r] = IF pc[r] = 0 THEN <<>>
                   ELSE Concat(SubSeq(fmt_of(err), 1, pc[r] - 1))
    /\ ret.op # "none" => ret.val = Alone(ret.op)
    /\ call # NoCall => mem[err.error].text = call.T

C9_Witness ==
    /\ ret.op = "display"
    /\ ret.conc
    /\ call.T # <<>>
    /\ \E r \in Readers : pc[r] = 2

\* C10: static_err and into_err store the very reference they were given and
\* create no text buffer; new_err creates exactly one and stores that.
C10_ZeroCopy ==
    /\ call.ctor \in {"static_err", "into_err"} =>
          /\ err.error = call.e
          /\ call.copies = 0
    /\ call.ctor = "new_err" =>
          /\ err.error # call.e
          /\ call.copies = 1

C10_Witness ==
    /\ call.ctor = "into_err"
    /\ err.error = "h1"
    /\ call.copies = 0
    /\ call.T # <<>>

====
